---------------------------- MODULE Spec2Model ----------------------------
(***************************************************************************)
(* Specialty -> NUCC taxonomy mapper: the text transforms of mapping.py    *)
(* and preprocessing.py, the three-strategy matcher, the aggregator and    *)
(* the merge of main.py.                                                   *)
(*                                                                         *)
(* A Python str is a sequence of one-character strings.  A score (a Python *)
(* float that the code obtains as a quotient of two integers) is the pair  *)
(* <<numerator, denominator>>, compared by cross-multiplication.           *)
(***************************************************************************)
EXTENDS Integers, Sequences, FiniteSets, TLC

VARIABLES
    pc,        \* position of the driver: "idle", a finished call, or a stage of main()
    cfg,       \* the constructed objects: taxonomy, synonyms, threshold, USE_RAPIDFUZZ, rules
    arg,       \* the argument of the last call
    out,       \* the value the last call returned
    loc,       \* the locals of the last call when it returned
    df_in,     \* main(): the input rows (raw_specialty)
    df_pre,    \* main(): the preprocessed rows
    df_map,    \* main(): the rows map_dataframe returned
    df_final,  \* main(): the merged output rows
    matched    \* main(): the processed texts handed to map_text

vars == <<pc, cfg, arg, out, loc, df_in, df_pre, df_map, df_final, matched>>

(***************************************************************************)
(* Characters and the pieces of Python's str / re that the code uses.      *)
(***************************************************************************)
LowerLetters == <<"a","b","c","d","e","f","g","h","i","j","k","l","m",
                  "n","o","p","q","r","s","t","u","v","w","x","y","z">>

UpperLetters == <<"A","B","C","D","E","F","G","H","I","J","K","L","M",
                  "N","O","P","Q","R","S","T","U","V","W","X","Y","Z">>

Digits == {"0","1","2","3","4","5","6","7","8","9"}

Range(s) == {s[i] : i \in DOMAIN s}

\* a sequence given as a function, as the tuple of its values
Tup(s) == SubSeq(s, 1, Len(s))

MinOf(S) == CHOOSE x \in S : \A y \in S : x <= y

MaxOf(S) == CHOOSE x \in S : \A y \in S : x >= y

LowerSet == Range(LowerLetters)

UpperSet == Range(UpperLetters)

SpaceChars == {" ", "\t", "\n"}

WordChars == LowerSet \cup UpperSet \cup Digits \cup {"_"}

\* \s of re and the separators of str.split()
IsSpace(c) == c \in SpaceChars

\* \w of re
IsWordChar(c) == c \in WordChars

\* str.lower() of each upper-case letter
LowerOf == [c \in UpperSet |-> LowerLetters[CHOOSE i \in DOMAIN UpperLetters : UpperLetters[i] = c]]

\* str.lower(), one character
LowerChar(c) == IF c \in UpperSet THEN LowerOf[c] ELSE c

\* str.lower()
StrLower(s) == Tup([i \in 1..Len(s) |-> LowerChar(s[i])])

\* re.sub(r"[^...]", " ", s) for a negated character class with members keep
ReSubNotIn(s, keep) == Tup([i \in 1..Len(s) |-> IF s[i] \in keep THEN s[i] ELSE " "])

RECURSIVE SkipSpaces(_, _)
\* the first index >= i of s that holds no whitespace (len(s)+1 when none)
SkipSpaces(s, i) == IF i <= Len(s) /\ IsSpace(s[i]) THEN SkipSpaces(s, i + 1) ELSE i

RECURSIVE SkipSolid(_, _)
\* the first index >= i of s that holds whitespace (len(s)+1 when none)
SkipSolid(s, i) == IF i <= Len(s) /\ ~IsSpace(s[i]) THEN SkipSolid(s, i + 1) ELSE i

RECURSIVE StrSplitFrom(_, _)
StrSplitFrom(s, i) ==
    LET from == SkipSpaces(s, i)
        to   == SkipSolid(s, from)
    IN  IF from > Len(s) THEN <<>>
        ELSE <<SubSeq(s, from, to - 1)>> \o StrSplitFrom(s, to)

\* str.split(): the maximal runs of non-whitespace, in order
StrSplit(s) == StrSplitFrom(s, 1)

RECURSIVE StrJoin(_, _)
\* sep.join(parts)
StrJoin(sep, parts) ==
    IF parts = <<>> THEN <<>>
    ELSE IF Len(parts) = 1 THEN parts[1]
    ELSE parts[1] \o sep \o StrJoin(sep, Tail(parts))

\* ' '.join(s.split()), which is also re.sub(r"\s+", " ", s).strip()
CollapseWs(s) == StrJoin(<<" ">>, StrSplit(s))

\* str.strip()
StrStrip(s) ==
    LET solid == {i \in 1..Len(s) : ~IsSpace(s[i])}
    IN  IF solid = {} THEN <<>> ELSE SubSeq(s, MinOf(solid), MaxOf(solid))

\* s[i:i+len(w)] == w
MatchAt(s, i, w) ==
    /\ i + Len(w) - 1 <= Len(s)
    /\ \A k \in 1..Len(w) : s[i + k - 1] = w[k]

\* pattern in s
Contains(s, w) == \E i \in 1..(Len(s) - Len(w) + 1) : MatchAt(s, i, w)

\* \b of re between s[i] and s[i+1] (i = 0 and i = len(s) are the ends)
IsBoundary(s, i) ==
    LET wordAt(k) == k >= 1 /\ k <= Len(s) /\ IsWordChar(s[k])
    IN  wordAt(i) # wordAt(i + 1)

\* \b(w1|w2|...)\b tried at index i: the length matched, 0 when none matches
WordAltMatchLen(s, i, words) ==
    LET ok(k) == /\ MatchAt(s, i, words[k])
                 /\ IsBoundary(s, i - 1 + Len(words[k]))
        hits  == {k \in DOMAIN words : ok(k)}
    IN  IF ~IsBoundary(s, i - 1) \/ hits = {} THEN 0 ELSE Len(words[MinOf(hits)])

RECURSIVE ReSubWordsRec(_, _, _, _)
\* the substitution from index i on: the leftmost match, then the rest behind it
ReSubWordsRec(s, i, words, repl) ==
    LET hits == {k \in i..Len(s) : WordAltMatchLen(s, k, words) > 0}
    IN  IF hits = {} THEN SubSeq(s, i, Len(s))
        ELSE LET k == MinOf(hits)
             IN  SubSeq(s, i, k - 1) \o repl
                 \o ReSubWordsRec(s, k + WordAltMatchLen(s, k, words), words, repl)

\* re.sub(r"\b(w1|w2|...)\b", repl, s) for words that are not empty
ReSubWords(s, words, repl) == ReSubWordsRec(s, 1, words, repl)

(***************************************************************************)
(* Scores                                                                  *)
(***************************************************************************)
RECURSIVE Gcd(_, _)
Gcd(a, b) == IF b = 0 THEN a ELSE Gcd(b, a % b)

\* the quotient n / d in lowest terms
Score(n, d) == LET g == Gcd(n, d) IN <<n \div g, d \div g>>

ScoreLt(a, b) == a[1] * b[2] < b[1] * a[2]

ScoreGe(a, b) == ~ScoreLt(a, b)

ScoreGt(a, b) == ScoreLt(b, a)

ScoreEq(a, b) == a[1] * b[2] = b[1] * a[2]

ScoreAdd(a, b) == Score(a[1] * b[2] + b[1] * a[2], a[2] * b[2])

ZeroScore == <<0, 1>>

OneScore == <<1, 1>>

(***************************************************************************)
(* mapping.py: normalize, split_specialties, token_overlap                 *)
(***************************************************************************)
NormalizeKeep == LowerSet \cup Digits \cup SpaceChars \cup {"/", "&", "+", ",", "-"}

NoiseWords == <<
    <<"d","e","p","t">>,
    <<"d","e","p","a","r","t","m","e","n","t">>,
    <<"c","l","i","n","i","c">>,
    <<"d","i","v","i","s","i","o","n">>,
    <<"p","r","o","g","r","a","m">>,
    <<"s","e","r","v","i","c","e">>,
    <<"c","e","n","t","e","r">>,
    <<"c","e","n","t","r","e">>,
    <<"u","n","i","t">>,
    <<"o","f","f","i","c","e">> >>

StopWords == << <<"o","f">>, <<"f","o","r">>, <<"a","n","d">>, <<"t","h","e">> >>

Normalize1(text) == StrLower(text)

Normalize2(text) == ReSubNotIn(Normalize1(text), NormalizeKeep)

Normalize3(text) == ReSubWords(Normalize2(text), NoiseWords, <<" ">>)

Normalize4(text) == ReSubWords(Normalize3(text), StopWords, <<" ">>)

\* normalize, had it removed the noise and stop words before the punctuation
NormalizePunctuationLast(text) ==
    CollapseWs(ReSubNotIn(
        ReSubWords(ReSubWords(StrLower(text), NoiseWords, <<" ">>), StopWords, <<" ">>),
        NormalizeKeep))

\* normalize(text) for a str argument
normalize(text) == CollapseWs(Normalize4(text))

SplitConnectors == {"|", ",", "/", ";", "&", "+"}

AndWord == <<" ","a","n","d"," ">>

\* r"\s*[|,/;&+]\s*| and " tried at index i: the length matched, 0 when none
SeparatorLenAt(s, i) ==
    LET j == SkipSpaces(s, i)
    IN  IF j <= Len(s) /\ s[j] \in SplitConnectors THEN SkipSpaces(s, j + 1) - i
        ELSE IF MatchAt(s, i, AndWord) THEN Len(AndWord)
        ELSE 0

RECURSIVE NextSeparator(_, _)
\* the first index >= i where the separator pattern matches (len(s)+1 when none)
NextSeparator(s, i) ==
    IF i > Len(s) \/ SeparatorLenAt(s, i) > 0 THEN i ELSE NextSeparator(s, i + 1)

RECURSIVE ReSplitSpecialtiesRec(_, _)
\* the split from index i on: the piece before the leftmost separator, then the rest
ReSplitSpecialtiesRec(s, i) ==
    LET k == NextSeparator(s, i)
    IN  IF k > Len(s) THEN <<SubSeq(s, i, Len(s))>>
        ELSE <<SubSeq(s, i, k - 1)>> \o ReSplitSpecialtiesRec(s, k + SeparatorLenAt(s, k))

\* re.split(r"\s*[|,/;&+]\s*| and ", text)
ReSplitSpecialties(s) == ReSplitSpecialtiesRec(s, 1)

\* [p.strip() for p in parts if p.strip()]
StripNonEmpty(parts) ==
    LET stripped == Tup([i \in 1..Len(parts) |-> StrStrip(parts[i])])
    IN  SelectSeq(stripped, LAMBDA p : p # <<>>)

split_specialties(text) == StripNonEmpty(ReSplitSpecialties(text))

TokenSet(s) == Range(StrSplit(s))

token_overlap(a, b) ==
    LET ta == TokenSet(a)
        tb == TokenSet(b)
    IN  IF ta = {} \/ tb = {} THEN ZeroScore
        ELSE Score(Cardinality(ta \cap tb), Cardinality(ta \cup tb))

(***************************************************************************)
(* The similarity measures fuzzy_match calls                               *)
(***************************************************************************)
Max(a, b) == IF a >= b THEN a ELSE b

\* row i of the longest-common-subsequence table from row i - 1 (prev); column
\* j is at index j + 1.  a[i] = c is left out, or paired with the last b[k] = c,
\* k <= j (prev does not decrease along the row)
LcsRow(prev, c, b) ==
    LET pos == {k \in 1..Len(b) : b[k] = c}
    IN  IF pos = {} THEN prev
        ELSE Tup([j1 \in 1..(Len(b) + 1) |->
                LET at == {k \in pos : k < j1}
                IN  IF at = {} THEN prev[j1] ELSE Max(prev[j1], prev[MaxOf(at)] + 1)])

RECURSIVE LcsRows(_, _, _, _)
LcsRows(a, b, i, prev) ==
    IF i > Len(a) THEN prev[Len(b) + 1]
    ELSE LcsRows(a, b, i + 1, LcsRow(prev, a[i], b))

\* length of the longest common subsequence of a and b
Lcs(a, b) == LcsRows(a, b, 1, Tup([j \in 1..(Len(b) + 1) |-> 0]))

\* rapidfuzz.fuzz.ratio(a, b) / 100: the normalized Indel similarity
IndelRatio(a, b) ==
    IF Len(a) + Len(b) = 0 THEN OneScore ELSE Score(2 * Lcs(a, b), Len(a) + Len(b))

\* the ASCII characters of the texts in code-point order
AsciiOrder ==
    <<"\t", "\n", " ", "!", "#", "$", "%", "&", "'", "(", ")", "*", "+", ",", "-", ".", "/",
      "0","1","2","3","4","5","6","7","8","9", ":", ";", "<", "=", ">", "?", "@">>
        \o UpperLetters \o <<"[", "\\", "]", "^", "_">> \o LowerLetters
        \o <<"{", "|", "}", "~">>

CharOrdOf == [c \in Range(AsciiOrder) |-> CHOOSE i \in DOMAIN AsciiOrder : AsciiOrder[i] = c]

CharOrd(c) == CharOrdOf[c]

\* a < b for two str
StrLess(a, b) ==
    LET n    == IF Len(a) < Len(b) THEN Len(a) ELSE Len(b)
        diff == {i \in 1..n : a[i] # b[i]}
    IN  IF diff = {} THEN Len(a) < Len(b)
        ELSE CharOrd(a[MinOf(diff)]) < CharOrd(b[MinOf(diff)])

RECURSIVE InsertSorted(_, _)
InsertSorted(sorted, w) ==
    IF sorted = <<>> THEN <<w>>
    ELSE IF StrLess(w, sorted[1]) THEN <<w>> \o sorted
    ELSE <<sorted[1]>> \o InsertSorted(Tail(sorted), w)

RECURSIVE SortTokens(_)
\* sorted(tokens)
SortTokens(tokens) ==
    IF tokens = <<>> THEN <<>>
    ELSE InsertSorted(SortTokens(SubSeq(tokens, 1, Len(tokens) - 1)), tokens[Len(tokens)])

\* rapidfuzz.fuzz.token_sort_ratio(a, b) / 100
token_sort_ratio(a, b) ==
    IndelRatio(StrJoin(<<" ">>, SortTokens(StrSplit(a))),
               StrJoin(<<" ">>, SortTokens(StrSplit(b))))

RECURSIVE CommonPrefixLen(_, _, _, _, _, _)
\* the k with a[i:i+k] == b[j:j+k], inside a[:ahi] and b[:bhi]
CommonPrefixLen(a, b, i, j, ahi, bhi) ==
    IF i <= ahi /\ j <= bhi /\ a[i] = b[j]
    THEN 1 + CommonPrefixLen(a, b, i + 1, j + 1, ahi, bhi)
    ELSE 0

\* SequenceMatcher.find_longest_match: <<i, j, k>>, the longest block, the
\* earliest in a and then the earliest in b among the longest
FindLongestMatch(a, b, alo, ahi, blo, bhi) ==
    LET blocks  == {<<i, j, CommonPrefixLen(a, b, i, j, ahi, bhi)>> :
                       i \in alo..ahi, j \in blo..bhi}
        k       == MaxOf({x[3] : x \in blocks})
        longest == {x \in blocks : x[3] = k}
        i0      == MinOf({x[1] : x \in longest})
        j0      == MinOf({x[2] : x \in {y \in longest : y[1] = i0}})
    IN  IF alo > ahi \/ blo > bhi THEN <<alo, blo, 0>> ELSE <<i0, j0, k>>

RECURSIVE MatchingSize(_, _, _, _, _, _)
\* the total size of SequenceMatcher.get_matching_blocks()
MatchingSize(a, b, alo, ahi, blo, bhi) ==
    LET m == FindLongestMatch(a, b, alo, ahi, blo, bhi)
    IN  IF m[3] = 0 THEN 0
        ELSE m[3] + MatchingSize(a, b, alo, m[1] - 1, blo, m[2] - 1)
                  + MatchingSize(a, b, m[1] + m[3], ahi, m[2] + m[3], bhi)

\* difflib.SequenceMatcher(None, a, b).ratio()
SequenceMatcherRatio(a, b) ==
    IF Len(a) + Len(b) = 0 THEN OneScore
    ELSE Score(2 * MatchingSize(a, b, 1, Len(a), 1, Len(b)), Len(a) + Len(b))

(***************************************************************************)
(* mapping.py: NuccSpecialtyMapper                                         *)
(*                                                                         *)
(* A mapper m is the record [df, synonyms, threshold, rapidfuzz]: df is    *)
(* the taxonomy in row order, each row [code, canonical]; synonyms is the  *)
(* dict as its items in insertion order; rapidfuzz is USE_RAPIDFUZZ.       *)
(* A candidate is [code, score, why]; why is <<"exact">>,                  *)
(* <<"token_overlap", score>> or <<"fuzzy", score>> (the score that the    *)
(* code formats into the reason text).                                     *)
(***************************************************************************)
\* the canonical phrase of one taxonomy row, as __init__ derives it
Canonical(r) ==
    LET chosen == IF r.display_name # <<>> THEN r.display_name
                  ELSE r.classification \o <<" ">> \o r.specialization
    IN  normalize(StrLower(StrStrip(chosen)))

RECURSIVE DictFromItems(_, _)
\* {k.lower(): v.lower() for k, v in items}: a later equal key overwrites the
\* value and keeps the place of the first
DictFromItems(items, acc) ==
    IF items = <<>> THEN acc
    ELSE LET k == StrLower(items[1][1])
             v == StrLower(items[1][2])
             at == {i \in DOMAIN acc : acc[i][1] = k}
         IN  DictFromItems(Tail(items),
                 IF at = {} THEN Append(acc, <<k, v>>)
                 ELSE [acc EXCEPT ![CHOOSE i \in at : TRUE] = <<k, v>>])

\* NuccSpecialtyMapper(nucc_df, synonyms, threshold) with USE_RAPIDFUZZ as given
NewMapper(nucc_df, synonyms, threshold, rapidfuzz) ==
    [df        |-> Tup([i \in 1..Len(nucc_df) |->
                      [code |-> nucc_df[i].code, canonical |-> Canonical(nucc_df[i])]]),
     synonyms  |-> DictFromItems(synonyms, <<>>),
     threshold |-> threshold,
     rapidfuzz |-> rapidfuzz]

\* self.synonyms.get(w, w)
SynonymGet(m, w) ==
    LET at == {i \in DOMAIN m.synonyms : m.synonyms[i][1] = w}
    IN  IF at = {} THEN w ELSE m.synonyms[CHOOSE i \in at : TRUE][2]

expand_synonyms(m, text) ==
    LET words == StrSplit(text)
    IN  StrJoin(<<" ">>, Tup([i \in 1..Len(words) |-> SynonymGet(m, words[i])]))

\* the score of taxonomy row r for query q under one strategy
StrategyScore(kind, q, r) ==
    IF kind = "exact" THEN OneScore
    ELSE IF kind = "token" THEN token_overlap(q, r.canonical)
    ELSE SequenceMatcherRatio(q, r.canonical)

\* what one strategy appends to its result for row r, whose score is sc
StrategyAppend(kind, q, r, sc) ==
    LET keep == IF kind = "exact" THEN r.canonical = q
                ELSE IF kind = "token" THEN ScoreGe(sc, Score(7, 10))
                ELSE ScoreGe(sc, Score(8, 10))
        why  == IF kind = "exact" THEN <<"exact">>
                ELSE IF kind = "token" THEN <<"token_overlap", sc>>
                ELSE <<"fuzzy", sc>>
    IN  IF keep THEN <<[code |-> r.code, score |-> sc, why |-> why]>> ELSE <<>>

RECURSIVE FilterMapRows(_, _, _, _)
\* the candidates of the rows i.. of m.df for query q under one strategy
FilterMapRows(m, q, kind, i) ==
    IF i > Len(m.df) THEN <<>>
    ELSE StrategyAppend(kind, q, m.df[i], StrategyScore(kind, q, m.df[i]))
         \o FilterMapRows(m, q, kind, i + 1)

exact_match(m, query) == FilterMapRows(m, query, "exact", 1)

token_match(m, query) == FilterMapRows(m, query, "token", 1)

\* limit of process.extract
ExtractLimit == 10

RECURSIVE InsertByScore(_, _)
\* x placed behind every element whose score is not smaller
InsertByScore(sorted, x) ==
    IF sorted = <<>> THEN <<x>>
    ELSE IF ScoreGt(x.score, sorted[1].score) THEN <<x>> \o sorted
    ELSE <<sorted[1]>> \o InsertByScore(Tail(sorted), x)

RECURSIVE SortByScoreDesc(_)
\* sorted(xs, key=score, reverse=True): stable
SortByScoreDesc(xs) ==
    IF xs = <<>> THEN <<>>
    ELSE InsertByScore(SortByScoreDesc(SubSeq(xs, 1, Len(xs) - 1)), xs[Len(xs)])

\* process.extract(query, self.canonicals, scorer=fuzz.token_sort_ratio, limit=10),
\* each match as [phrase, score] with score already divided by 100
ProcessExtract(m, query) ==
    LET scored == Tup([i \in 1..Len(m.df) |->
                     [phrase |-> m.df[i].canonical,
                      score  |-> token_sort_ratio(query, m.df[i].canonical)]])
        ranked == SortByScoreDesc(scored)
    IN  SubSeq(ranked, 1, IF Len(ranked) < ExtractLimit THEN Len(ranked) ELSE ExtractLimit)

\* self.df.loc[self.df["canonical"] == phrase, "code"].iloc[0]
FirstCodeOf(m, phrase) ==
    LET at == {i \in DOMAIN m.df : m.df[i].canonical = phrase}
    IN  m.df[CHOOSE i \in at : \A j \in at : i <= j].code

RECURSIVE FuzzyRapid(_, _, _, _)
FuzzyRapid(m, query, matches, i) ==
    IF i > Len(matches) THEN <<>>
    ELSE LET x == matches[i]
             keep == /\ ScoreGe(x.score, Score(75, 100))
                     /\ ScoreGt(token_overlap(query, x.phrase), ZeroScore)
         IN  (IF keep
              THEN <<[code |-> FirstCodeOf(m, x.phrase), score |-> x.score,
                      why |-> <<"fuzzy", x.score>>]>>
              ELSE <<>>)
             \o FuzzyRapid(m, query, matches, i + 1)

fuzzy_match(m, query) ==
    IF m.rapidfuzz
    THEN FuzzyRapid(m, query, ProcessExtract(m, query), 1)
    ELSE FilterMapRows(m, query, "fuzzy", 1)

\* the pool of map_one: exact, then token overlap, then fuzzy
Candidates(m, q) == exact_match(m, q) \o token_match(m, q) \o fuzzy_match(m, q)

RECURSIVE BestPerCodeLastWins(_, _)
\* best of map_one, had an equal score replaced the entry of a code
BestPerCodeLastWins(candidates, best) ==
    IF candidates = <<>> THEN best
    ELSE LET c  == candidates[1]
             at == {i \in DOMAIN best : best[i].code = c.code}
         IN  BestPerCodeLastWins(Tail(candidates),
                 IF at = {} THEN Append(best, c)
                 ELSE LET k == CHOOSE j \in at : TRUE
                      IN  IF ScoreGe(c.score, best[k].score)
                          THEN [best EXCEPT ![k] = c]
                          ELSE best)

RECURSIVE BestPerCode(_, _)
\* the dict best of map_one as its items in insertion order
BestPerCode(candidates, best) ==
    IF candidates = <<>> THEN best
    ELSE LET c  == candidates[1]
             at == {i \in DOMAIN best : best[i].code = c.code}
         IN  BestPerCode(Tail(candidates),
                 IF at = {} THEN Append(best, c)
                 ELSE LET k == CHOOSE j \in at : TRUE
                      IN  IF ScoreGt(c.score, best[k].score)
                          THEN [best EXCEPT ![k] = c]
                          ELSE best)

\* merged of map_one
Merged(candidates) == SortByScoreDesc(BestPerCode(candidates, <<>>))

\* the return of map_one for the first merged candidate, had it not compared
\* top_score with the threshold
MapOneTopNoThreshold(m, top) ==
    [codes |-> <<top.code>>, score |-> top.score, why |-> top.why]

\* the return of map_one for the first merged candidate (top_code, top_score, why)
MapOneTop(m, top) ==
    IF ScoreLt(top.score, m.threshold)
    THEN [codes |-> <<>>, score |-> top.score, why |-> <<"junk-low-confidence">>]
    ELSE [codes |-> <<top.code>>, score |-> top.score, why |-> top.why]

\* map_one once q and candidates are computed
MapOnePool(m, q, candidates) ==
    IF q = <<>> THEN [codes |-> <<>>, score |-> ZeroScore, why |-> <<"empty">>]
    ELSE IF candidates = <<>>
    THEN [codes |-> <<>>, score |-> ZeroScore, why |-> <<"no match">>]
    ELSE MapOneTop(m, Merged(candidates)[1])

\* map_one after q is computed
MapOneQuery(m, q) == MapOnePool(m, q, Candidates(m, q))

\* q of map_one
MapOneQ(m, text) == normalize(expand_synonyms(m, text))

map_one(m, text) == MapOneQuery(m, MapOneQ(m, text))

RECURSIVE CounterAdd(_, _)
\* all_codes[c] += 1 for c in codes; a Counter keeps its keys in insertion order
CounterAdd(counter, codes) ==
    IF codes = <<>> THEN counter
    ELSE LET c  == codes[1]
             at == {i \in DOMAIN counter : counter[i].code = c}
         IN  CounterAdd(
                 IF at = {} THEN Append(counter, [code |-> c, n |-> 1])
                 ELSE [counter EXCEPT ![CHOOSE i \in at : TRUE].n = @ + 1],
                 Tail(codes))

RECURSIVE InsertByCountTiesFirst(_, _)
\* the insertion of most_common, had a later key of equal count gone first
InsertByCountTiesFirst(sorted, x) ==
    IF sorted = <<>> THEN <<x>>
    ELSE IF x.n >= sorted[1].n THEN <<x>> \o sorted
    ELSE <<sorted[1]>> \o InsertByCountTiesFirst(Tail(sorted), x)

RECURSIVE InsertByCount(_, _)
InsertByCount(sorted, x) ==
    IF sorted = <<>> THEN <<x>>
    ELSE IF x.n > sorted[1].n THEN <<x>> \o sorted
    ELSE <<sorted[1]>> \o InsertByCount(Tail(sorted), x)

RECURSIVE SortByCountDesc(_)
SortByCountDesc(xs) ==
    IF xs = <<>> THEN <<>>
    ELSE InsertByCount(SortByCountDesc(SubSeq(xs, 1, Len(xs) - 1)), xs[Len(xs)])

\* the n of most_common in map_text
TopN == 3

\* [c for c, _ in counter.most_common(n)]
MostCommon(counter, n) ==
    LET ranked == SortByCountDesc(counter)
        k      == IF Len(ranked) < n THEN Len(ranked) ELSE n
    IN  Tup([i \in 1..k |-> ranked[i].code])

RECURSIVE SumScores(_)
SumScores(confs) ==
    IF confs = <<>> THEN ZeroScore ELSE ScoreAdd(confs[1], SumScores(Tail(confs)))

\* one pass of the for loop of map_text: r is what map_one returned for part p
MapTextStep(st, p, r) ==
    [all_codes |-> CounterAdd(st.all_codes, r.codes),
     confs     |-> Append(st.confs, r.score),
     reasons   |-> Append(st.reasons, [part |-> p, codes |-> r.codes])]

RECURSIVE MapTextLoop(_, _, _, _)
\* the for loop of map_text from part i on; st is [all_codes, confs, reasons],
\* a reason being the phrase and its codes (the formatted score is left out)
MapTextLoop(m, parts, i, st) ==
    IF i > Len(parts) THEN st
    ELSE MapTextLoop(m, parts, i + 1, MapTextStep(st, parts[i], map_one(m, parts[i])))

\* parts of map_text
MapTextParts(text) == split_specialties(normalize(text))

\* map_text once the loop has run, had it no return for an empty Counter
MapTextResultNoEarlyReturn(st) ==
    IF st.confs = <<>>
    THEN [codes |-> <<>>, conf |-> ZeroScore, explain |-> st.reasons]
    ELSE LET total == SumScores(st.confs)
         IN  [codes   |-> MostCommon(st.all_codes, TopN),
              conf    |-> Score(total[1], total[2] * Len(st.confs)),
              explain |-> st.reasons]

\* map_text once the loop has run
MapTextResult(st) ==
    IF st.all_codes = <<>>
    THEN [codes |-> <<>>, conf |-> ZeroScore, explain |-> st.reasons]
    ELSE LET total == SumScores(st.confs)
         IN  [codes   |-> MostCommon(st.all_codes, TopN),
              conf    |-> Score(total[1], total[2] * Len(st.confs)),
              explain |-> st.reasons]

\* all_codes, confs and reasons of map_text when its loop is over
MapTextLocals(m, text) ==
    MapTextLoop(m, MapTextParts(text), 1,
                [all_codes |-> <<>>, confs |-> <<>>, reasons |-> <<>>])

map_text(m, text) == MapTextResult(MapTextLocals(m, text))

(***************************************************************************)
(* preprocessing.py: SpecialtyPreprocessor                                 *)
(***************************************************************************)
\* junk_patterns of initialize_junk_patterns
JunkPatterns == <<
    <<"#","#","#","#">>,
    <<"?","?","?">>,
    <<"x","y","z">>,
    <<"a","b","c">>,
    <<"t","b","d">>,
    <<"t","e","m","p">>,
    <<"t","e","m","p","o","r","a","r","y">>,
    <<"u","n","k","n","o","w","n">>,
    <<"n","/","a">>,
    <<"n","a">>,
    <<"n","o","n","e">>,
    <<"t","e","s","t">>,
    <<"s","a","m","p","l","e">>,
    <<"r","a","n","d","o","m">>,
    <<"e","r","r","o","r">>,
    <<"r","o","u","t","i","n","e">>,
    <<"m","e","d"," ","o","f","f","i","c","e">>,
    <<"p","h","y","s","i","c","i","a","n">>,
    <<"d","r">>,
    <<"d","o","c","t","o","r">> >>

\* the characters re.sub(r'[^\w\s&/-]', ' ', ...) keeps
NormalizeTextKeep == WordChars \cup SpaceChars \cup {"&", "/", "-"}

\* normalize_text for a str argument
normalize_text(text) ==
    IF text = <<>> THEN <<>>
    ELSE StrStrip(CollapseWs(ReSubNotIn(CollapseWs(StrLower(text)), NormalizeTextKeep)))

short_valid_abbr == << <<"i","r">>, <<"g","i">>, <<"e","d">>, <<"e","r">>, <<"i","c","u">>, <<"p","i","c","u">>, <<"n","i","c","u">> >>

is_junk_entry(text) ==
    \/ text = <<>>
    \/ Len(StrStrip(text)) <= 2
    \/ \E k \in DOMAIN JunkPatterns : Contains(StrLower(text), JunkPatterns[k])
    \/ Len(text) <= 3 /\ text \notin Range(short_valid_abbr)
    \/ \A i \in DOMAIN text : text[i] \in Digits \/ ~IsWordChar(text[i])

RECURSIVE LiteralSubRec(_, _, _, _, _)
\* s from index i on with each occurrence of p replaced by r, leftmost first and
\* not overlapping; the occurrences are looked for in key (s, or s lower-cased)
LiteralSubRec(s, key, i, p, r) ==
    LET hits == {k \in i..(Len(s) - Len(p) + 1) : MatchAt(key, k, p)}
    IN  IF hits = {} THEN SubSeq(s, i, Len(s))
        ELSE LET k == MinOf(hits)
             IN  SubSeq(s, i, k - 1) \o r \o LiteralSubRec(s, key, k + Len(p), p, r)

\* s.replace(p, r) for a p that is not empty
StrReplace(s, p, r) == LiteralSubRec(s, s, 1, p, r)

\* re.sub(p, r, s, flags=re.IGNORECASE) for a p without metacharacters
ReSubLiteralI(s, p, r) == LiteralSubRec(s, StrLower(s), 1, StrLower(p), r)

\* re.compile raises re.error: of the metacharacters the patterns here hold
\* only parentheses, and a group that is opened must be closed
PatternError(p) ==
    Cardinality({i \in DOMAIN p : p[i] = "("}) # Cardinality({i \in DOMAIN p : p[i] = ")"})

\* the replacement template raises re.error: a backslash at the end or before
\* an ASCII letter that is no escape (the templates here hold no valid escape)
TemplateError(r) ==
    \E i \in DOMAIN r :
        /\ r[i] = "\\"
        /\ \/ i = Len(r)
           \/ r[i + 1] \in UpperSet \cup (LowerSet \ {"a", "b", "f", "g", "n", "r", "t", "v"})

WordLevelTypes ==
    {"abbreviation", "misspelling", "short_form", "professional_title", "specialty_variation"}

PhraseTypes == {"phrase", "variation"}

RemoveTypes == {"department", "professional_prefix", "institutional"}

\* the except branch of apply_synonym_mapping, had it skipped the rule
RegexFallbackSkip(t, pattern, replacement) == t

\* the except branch of apply_synonym_mapping
RegexFallback(t, pattern, replacement) == StrReplace(t, pattern, replacement)

\* the try block of apply_synonym_mapping raises re.error for the rule
RuleRaises(rule) ==
    \/ rule.type \in PhraseTypes /\ PatternError(rule.pattern)
    \/ /\ rule.type \in WordLevelTypes \cup PhraseTypes \cup RemoveTypes
       /\ TemplateError(rule.replacement)

\* one pass of the loop of apply_synonym_mapping over processed_text t
SynonymStep(rule, t) ==
    IF rule.pattern = <<>> THEN t
    ELSE IF RuleRaises(rule) THEN RegexFallback(t, rule.pattern, rule.replacement)
    ELSE IF rule.type \in WordLevelTypes \cup RemoveTypes
    THEN ReSubWords(t, <<rule.pattern>>, rule.replacement)
    ELSE IF rule.type \in PhraseTypes
    THEN ReSubLiteralI(t, rule.pattern, rule.replacement)
    ELSE t

RECURSIVE SynonymLoop(_, _)
\* the for loop of apply_synonym_mapping over the rows of synonyms_df
SynonymLoop(rules, t) ==
    IF rules = <<>> THEN t ELSE SynonymLoop(Tail(rules), SynonymStep(rules[1], t))

apply_synonym_mapping(pre, text) ==
    IF text = <<>> THEN <<>>
    ELSE StrStrip(CollapseWs(SynonymLoop(pre.synonyms_df, text)))

\* special_cases of handle_special_cases: a\s*[seps]?\s*b and the replacement
SpecialCases == <<
    [a |-> <<"o","b">>, seps |-> {"/"}, b |-> <<"g","y","n">>,
     replacement |-> <<"o","b","s","t","e","t","r","i","c","s"," ","g","y","n","e","c","o","l","o","g","y">>],
    [a |-> <<"p","s","y","c","h">>, seps |-> {"/","&"}, b |-> <<"n","e","u","r","o">>,
     replacement |-> <<"p","s","y","c","h","i","a","t","r","y"," ","n","e","u","r","o","l","o","g","y">>],
    [a |-> <<"h","e","m","e">>, seps |-> {"/"}, b |-> <<"o","n","c">>,
     replacement |-> <<"h","e","m","a","t","o","l","o","g","y"," ","o","n","c","o","l","o","g","y">>],
    [a |-> <<"p","u","l","m">>, seps |-> {"/"}, b |-> <<"c","r","i","t">>,
     replacement |-> <<"p","u","l","m","o","n","a","r","y"," ","c","r","i","t","i","c","a","l"," ","c","a","r","e">>],
    [a |-> <<"c","a","r","d","i","o">>, seps |-> {"/"}, b |-> <<"t","h","o","r","a","c","i","c">>,
     replacement |-> <<"c","a","r","d","i","o","t","h","o","r","a","c","i","c">>],
    [a |-> <<"o","r","t","h","o">>, seps |-> {"/"}, b |-> <<"t","r","a","u","m","a">>,
     replacement |-> <<"o","r","t","h","o","p","e","d","i","c"," ","t","r","a","u","m","a">>] >>

\* the length a\s*[seps]?\s*b matches at index i of key, 0 when it does not match
SpecialMatchLen(key, i, c) ==
    LET j  == SkipSpaces(key, i + Len(c.a))
        j2 == SkipSpaces(key, j + 1)
    IN  IF ~MatchAt(key, i, c.a) THEN 0
        ELSE IF j <= Len(key) /\ key[j] \in c.seps /\ MatchAt(key, j2, c.b)
        THEN j2 + Len(c.b) - i
        ELSE IF MatchAt(key, j, c.b) THEN j + Len(c.b) - i
        ELSE 0

RECURSIVE SpecialSubRec(_, _, _, _)
\* re.sub of one special case from index i on
SpecialSubRec(s, key, i, c) ==
    LET hits == {k \in i..Len(s) : SpecialMatchLen(key, k, c) > 0}
    IN  IF hits = {} THEN SubSeq(s, i, Len(s))
        ELSE LET k == MinOf(hits)
             IN  SubSeq(s, i, k - 1) \o c.replacement
                 \o SpecialSubRec(s, key, k + SpecialMatchLen(key, k, c), c)

RECURSIVE SpecialLoop(_, _)
SpecialLoop(cases, t) ==
    IF cases = <<>> THEN t
    ELSE SpecialLoop(Tail(cases), SpecialSubRec(t, StrLower(t), 1, cases[1]))

handle_special_cases(text) == IF text = <<>> THEN <<>> ELSE SpecialLoop(SpecialCases, text)

\* separators of split_multi_specialties
MultiSeparators == << <<"/">>, <<"&">>, <<" ","a","n","d"," ">>, <<",">>, <<"+">> >>

RECURSIVE SplitOnRec(_, _, _, _)
\* re.split(sep, s, flags=re.IGNORECASE) from index i on, for a literal sep
SplitOnRec(s, key, i, sep) ==
    LET hits == {k \in i..(Len(s) - Len(sep) + 1) : MatchAt(key, k, sep)}
    IN  IF hits = {} THEN <<SubSeq(s, i, Len(s))>>
        ELSE LET k == MinOf(hits)
             IN  <<SubSeq(s, i, k - 1)>> \o SplitOnRec(s, key, k + Len(sep), sep)

RECURSIVE SplitEach(_, _)
\* new_specialties of split_multi_specialties for one separator
SplitEach(specialties, sep) ==
    IF specialties = <<>> THEN <<>>
    ELSE LET s == specialties[1]
         IN  (IF Contains(StrLower(s), sep)
              THEN StripNonEmpty(SplitOnRec(s, StrLower(s), 1, sep))
              ELSE <<s>>) \o SplitEach(Tail(specialties), sep)

RECURSIVE SplitLoop(_, _)
SplitLoop(specialties, seps) ==
    IF seps = <<>> THEN specialties
    ELSE SplitLoop(SplitEach(specialties, seps[1]), Tail(seps))

\* [s for s in xs if keep(s)] by the indices kept
SelectIdx(xs, keep) ==
    LET nth(n) == CHOOSE i \in keep : Cardinality({j \in keep : j < i}) = n - 1
    IN  Tup([n \in 1..Cardinality(keep) |-> xs[nth(n)]])

split_multi_specialties(text) ==
    IF text = <<>> THEN <<>>
    ELSE LET specialties == SplitLoop(<<text>>, MultiSeparators)
         IN  SelectIdx(specialties, {i \in DOMAIN specialties : Len(specialties[i]) > 2})

preprocess_specialty(pre, raw_specialty) ==
    LET normalized  == normalize_text(raw_specialty)
        processed   == apply_synonym_mapping(pre, handle_special_cases(normalized))
        specialties == split_multi_specialties(processed)
        kept        == {i \in DOMAIN specialties :
                           ~is_junk_entry(specialties[i]) /\ Len(specialties[i]) >= 3}
        final       == SelectIdx(specialties, kept)
    IN  IF is_junk_entry(normalized) THEN <<>>
        ELSE Tup([i \in DOMAIN final |-> CollapseWs(final[i])])

(***************************************************************************)
(* main.py: the pipeline.  A data frame is the sequence of its rows, a row *)
(* a record of its columns.  PreprocessSpecialty.process_dataframe is      *)
(* imported from preprocessing but that module does not define it; it is   *)
(* modelled from the specification's Text Normalizer and Junk Classifier:  *)
(* one (processed, is_junk) pair per row.                                  *)
(***************************************************************************)
\* noise tokens of the Text Normalizer (step 6)
NormalizerNoiseTokens == {
    <<"d","e","p","t">>,
    <<"c","l","i","n","i","c">>,
    <<"d","i","v","i","s","i","o","n">>,
    <<"u","n","i","t">>,
    <<"h","o","s","p","i","t","a","l">>,
    <<"o","u","t","p","a","t","i","e","n","t">>,
    <<"e","d">>,
    <<"e","r">>,
    <<"d","r">>,
    <<"m","r">>,
    <<"p","r","o","f">> }

\* connector punctuation of the Text Normalizer (step 7)
NormalizerConnectors == <<"&", "+", ",", ";">>

RECURSIVE ReplaceConnectors(_, _)
\* every connector character becomes the canonical separator " / "
ReplaceConnectors(s, connectors) ==
    IF connectors = <<>> THEN s
    ELSE ReplaceConnectors(StrReplace(s, <<connectors[1]>>, <<" ", "/", " ">>),
                           Tail(connectors))

\* the tokens kept by steps 6 and 7: no noise token, "and" as the separator,
\* a repeated separator once
NormalizerTokens(tokens) ==
    LET sep(i)  == tokens[i] \in {<<"/">>, <<"a","n","d">>}
        keep    == {i \in DOMAIN tokens :
                       /\ tokens[i] \notin NormalizerNoiseTokens
                       /\ ~(sep(i) /\ i > 1 /\ sep(i - 1))}
        kept    == SelectIdx(tokens, keep)
    IN  Tup([i \in DOMAIN kept |-> IF kept[i] = <<"a","n","d">> THEN <<"/">> ELSE kept[i]])

\* Text Normalizer, steps 3, 6, 7 and 8; the other steps act on input the
\* rows here do not hold (null, mojibake, parentheses, digits, taxonomy codes)
TextNormalizer(text) ==
    LET lowered == StrLower(CollapseWs(text))
        spaced  == ReplaceConnectors(lowered, NormalizerConnectors)
        plain   == ReSubNotIn(spaced, LowerSet \cup Digits \cup SpaceChars \cup {"/"})
    IN  StrJoin(<<" ">>, NormalizerTokens(StrSplit(plain)))

JunkPlaceholders == {
    <<"t","b","d">>,
    <<"n","/","a">>,
    <<"u","n","k","n","o","w","n">>,
    <<"-">> }

JunkShortWhitelist == {
    <<"i","r">>,
    <<"g","i">>,
    <<"e","d">>,
    <<"i","c","u">> }

NonMedicalVocabulary == {
    <<"t","a","x","i">>,
    <<"d","r","i","v","e","r">>,
    <<"b","i","l","l","i","n","g">>,
    <<"a","d","m","i","n">> }

MedicalHintVocabulary == {
    <<"m","e","d","i","c","i","n","e">>,
    <<"s","u","r","g","e","r","y">>,
    <<"c","a","r","d","i","o","l","o","g","y">> }

\* Junk Classifier: the rules in order, the first match wins
JunkClassifier(text) ==
    \/ text = <<>>
    \/ text \in JunkPlaceholders
    \/ \A i \in DOMAIN text : text[i] \notin LowerSet \cup UpperSet
    \/ /\ Cardinality({i \in DOMAIN text : text[i] \in LowerSet \cup UpperSet}) < 3
       /\ text \notin JunkShortWhitelist
    \/ /\ TokenSet(text) \cap NonMedicalVocabulary # {}
       /\ TokenSet(text) \cap MedicalHintVocabulary = {}

\* pre.process_dataframe(df_in): the columns raw_specialty, processed, is_junk
process_dataframe(df) ==
    Tup([i \in DOMAIN df |->
            LET processed == TextNormalizer(df[i])
            IN  [raw_specialty |-> df[i],
                 processed     |-> processed,
                 is_junk       |-> IF JunkClassifier(processed) THEN 1 ELSE 0]])

\* round(conf, 3): to the nearest thousandth, a tie to the even one
Round3(conf) ==
    LET n == 1000 * conf[1]
        d == conf[2]
        k == n \div d
        r == n % d
    IN  Score(IF 2 * r < d THEN k
              ELSE IF 2 * r > d THEN k + 1
              ELSE IF k % 2 = 0 THEN k ELSE k + 1, 1000)

JunkCode == <<"J","U","N","K">>

JunkFlagged == <<"j","u","n","k","-","f","l","a","g","g","e","d">>

\* the rows map_dataframe iterates: raw_orig and proc_val
IterRows(df, col) ==
    Tup([i \in DOMAIN df |->
            [raw_orig |-> IF col # "raw_specialty" THEN df[i].raw_specialty ELSE df[i][col],
             proc_val |-> df[i][col]]])

\* the row map_dataframe appends for raw_orig, r being what map_text returned
MappedRow(raw_orig, r) ==
    [raw_specialty |-> raw_orig,
     mapped_code   |-> IF r.codes # <<>> THEN StrJoin(<<"|">>, r.codes) ELSE JunkCode,
     confidence    |-> Round3(r.conf),
     explain       |-> r.explain]

\* map_dataframe: raw_specialty, mapped_code, confidence, explain
map_dataframe(m, df, col) ==
    Tup([i \in DOMAIN df |->
            MappedRow(IterRows(df, col)[i].raw_orig,
                      map_text(m, IterRows(df, col)[i].proc_val))])

\* df_pre[df_pre["is_junk"] == 0], had the comparison kept every row
MapInputUnfiltered(df) == df

\* df_pre[df_pre["is_junk"] == 0]
MapInput(df) == SelectIdx(df, {i \in DOMAIN df : df[i].is_junk = 0})

\* df_map["raw_specialty"].duplicated().any()
HasDuplicates(df) ==
    \E i, j \in DOMAIN df : i < j /\ df[i].raw_specialty = df[j].raw_specialty

RECURSIVE SortedStrs(_)
\* sorted(S) for a set of str
SortedStrs(S) ==
    IF S = {} THEN <<>>
    ELSE LET least == CHOOSE x \in S : \A y \in S : x = y \/ StrLess(x, y)
         IN  <<least>> \o SortedStrs(S \ {least})

\* the orders in which a set can be iterated
IterationOrders(S) ==
    {p \in [1..Cardinality(S) -> S] : \A x \in S : \E i \in DOMAIN p : p[i] = x}

RECURSIVE ConcatAll(_)
ConcatAll(xs) == IF xs = <<>> THEN <<>> ELSE xs[1] \o ConcatAll(Tail(xs))

\* groupby("raw_specialty", as_index=False).agg(...): a row per raw_specialty
\* in sorted order; order is the order in which set(x) of explain is iterated
GroupByRaw(df, order) ==
    LET keys == SortedStrs({df[i].raw_specialty : i \in DOMAIN df})
    IN  Tup([n \in DOMAIN keys |->
            LET rows     == SelectIdx(df, {i \in DOMAIN df : df[i].raw_specialty = keys[n]})
                total    == SumScores(Tup([i \in DOMAIN rows |-> rows[i].confidence]))
                explains == {rows[i].explain : i \in DOMAIN rows}
            IN  [raw_specialty |-> keys[n],
                 mapped_code   |->
                     StrJoin(<<"|">>, SortedStrs({rows[i].mapped_code : i \in DOMAIN rows})),
                 confidence    |-> Score(total[1], total[2] * Len(rows)),
                 explain       |->
                     ConcatAll(SelectIdx(order, {i \in DOMAIN order : order[i] \in explains}))]])

\* a missing value of a merged column, and a value that is there
NaN == <<>>

Cell(v) == <<v>>

\* the rows of the left merge for one row of df_pre
MergeRow(l, right) ==
    LET hits == SelectIdx(right, {j \in DOMAIN right : right[j].raw_specialty = l.raw_specialty})
    IN  IF hits = <<>>
        THEN <<[raw_specialty |-> l.raw_specialty, processed |-> l.processed,
                is_junk |-> l.is_junk,
                nucc_codes |-> NaN, confidence |-> NaN, explain |-> NaN]>>
        ELSE Tup([j \in DOMAIN hits |->
                [raw_specialty |-> l.raw_specialty, processed |-> l.processed,
                 is_junk |-> l.is_junk,
                 nucc_codes |-> Cell(hits[j].mapped_code),
                 confidence |-> Cell(hits[j].confidence),
                 explain    |-> Cell(hits[j].explain)]])

RECURSIVE LeftMerge(_, _)
\* df_pre.merge(df_map, on="raw_specialty", how="left") in the order of df_pre,
\* with mapped_code renamed to nucc_codes
LeftMerge(left, right) ==
    IF left = <<>> THEN <<>>
    ELSE MergeRow(left[1], right) \o LeftMerge(Tail(left), right)

\* column.fillna(value) for one cell
FillCell(cell, value) == IF cell = NaN THEN value ELSE cell[1]

\* the three fillna of main
FillNa(df) ==
    Tup([i \in DOMAIN df |->
            [df[i] EXCEPT !.nucc_codes = FillCell(@, JunkCode),
                          !.confidence = FillCell(@, ZeroScore),
                          !.explain    = FillCell(@, JunkFlagged)]])

(***************************************************************************)
(* The matcher under test: a taxonomy, a synonym dict, the thresholds and  *)
(* the phrases handed to map_one and map_text.                             *)
(***************************************************************************)
Row(code, classification, specialization, display_name) ==
    [code |-> code, classification |-> classification,
     specialization |-> specialization, display_name |-> display_name]

NuccRows == <<
    Row(<<"K","1">>, <<>>, <<>>, <<"E","d"," ","E","r">>),
    Row(<<"K","2">>, <<>>, <<>>, <<"E","r"," ","E","d">>),
    Row(<<"K","3">>, <<"G","I">>, <<>>, <<>>),
    Row(<<"K","4">>, <<>>, <<>>, <<"G","I"," ","C","l","i","n","i","c">>),
    Row(<<"K","5">>, <<"e","d"," ","e","r">>, <<"g","i"," ","i","r">>, <<>>),
    Row(<<"K","6">>, <<>>, <<>>, <<"U","n","i","t">>),
    Row(<<"K","7">>, <<>>, <<>>, <<"i","c","u","s">>) >>

SynonymItems == << <<<<"E","N","T">>, <<"E","r"," ","E","d">>>>,
                   <<<<"n","a">>, <<"t","h","e">>>> >>

\* threshold of __init__: the default and a stricter one
Thresholds == {Score(65, 100), Score(9, 10)}

Mappers ==
    {NewMapper(NuccRows, SynonymItems, th, rf) : th \in Thresholds, rf \in BOOLEAN}

\* phrases that name a taxonomy entry
CodePhrases == <<
    <<"e","r"," ","e","d">>,
    <<"e","d"," ","e","r">>,
    <<"g","i">>,
    <<"e","d"," ","e","r"," ","g","i"," ","i","r">> >>

\* phrases that come close to an entry only
NearPhrases == <<
    <<"e","d"," ","e","r"," ","g","i">>,
    <<"i","c","u">> >>

\* phrases that normalize to nothing and that resemble no entry
VoidPhrases == <<
    <<"n","a">>,
    <<"x">> >>

\* phrases a synonym stands for
SynonymPhrases == <<
    <<"e","n","t">>,
    <<"E","N","T">> >>

TextPhrases == CodePhrases \o NearPhrases \o VoidPhrases

Phrases == TextPhrases \o SynonymPhrases

\* the most phrases one text joins
MaxParts == 2

\* the phrases of a text in which each phrase names an entry
MaxCodeParts == 4

RECURSIVE SeqsOfLen(_, _)
\* the sequences over S of length n
SeqsOfLen(S, n) ==
    IF n = 0 THEN {<<>>} ELSE {Append(q, x) : q \in SeqsOfLen(S, n - 1), x \in S}

PhraseSeqs ==
    UNION {SeqsOfLen(DOMAIN TextPhrases, n) : n \in 1..MaxParts}
        \cup SeqsOfLen(DOMAIN CodePhrases, MaxCodeParts)

PhraseTexts ==
    {StrJoin(<<" ","/"," ">>, Tup([i \in 1..Len(ix) |-> Phrases[ix[i]]])) : ix \in PhraseSeqs}

MatchInit ==
    /\ pc = "idle" /\ cfg \in Mappers /\ arg = <<>> /\ out = <<>> /\ loc = <<>>
    /\ df_in = <<>> /\ df_pre = <<>> /\ df_map = <<>> /\ df_final = <<>> /\ matched = {}

CallMapOne ==
    /\ pc = "idle"
    /\ \E i \in DOMAIN Phrases :
          /\ arg' = Phrases[i]
          /\ out' = map_one(cfg, Phrases[i])
    /\ pc' = "map_one" /\ loc' = <<>>
    /\ UNCHANGED <<cfg, df_in, df_pre, df_map, df_final, matched>>

\* loc keeps the locals of the call as they are when the loop is over
CallMapText ==
    /\ pc = "idle"
    /\ \E t \in PhraseTexts :
          /\ arg' = t
          /\ loc' = MapTextLocals(cfg, t)
          /\ out' = MapTextResult(loc')
    /\ pc' = "map_text"
    /\ UNCHANGED <<cfg, df_in, df_pre, df_map, df_final, matched>>

\* the fuzzy strategy on its own, on a query as map_one hands it over: the
\* normalized, synonym-expanded phrase, which is not empty
CallFuzzyMatch ==
    /\ pc = "idle"
    /\ \E q \in {MapOneQ(cfg, Phrases[i]) : i \in DOMAIN Phrases} \ {<<>>} :
          /\ arg' = q
          /\ out' = fuzzy_match(cfg, q)
    /\ pc' = "fuzzy_match" /\ loc' = <<>>
    /\ UNCHANGED <<cfg, df_in, df_pre, df_map, df_final, matched>>

\* the caller takes the result; the mapper is ready for the next call
Return ==
    /\ pc \in {"map_one", "map_text", "fuzzy_match"}
    /\ pc' = "idle" /\ arg' = <<>> /\ out' = <<>> /\ loc' = <<>>
    /\ UNCHANGED <<cfg, df_in, df_pre, df_map, df_final, matched>>

MatchNext == CallMapOne \/ CallMapText \/ CallFuzzyMatch \/ Return

SpecMatch == MatchInit /\ [][MatchNext]_vars

(***************************************************************************)
(* The text transforms under test: the preprocessor with its synonym rows, *)
(* the mapper's synonym dict, and the texts handed to each transform.      *)
(***************************************************************************)
\* rows of synonyms_df: a word-level rule, a phrase rule, a phrase rule whose
\* pattern does not compile, a rule whose replacement is no template, a removal
RulePool == <<
    [type |-> "abbreviation", pattern |-> <<"e","n","t">>, replacement |-> <<"o","t","o">>],
    [type |-> "phrase", pattern |-> <<"e","n","t">>, replacement |-> <<"o","t","o">>],
    [type |-> "phrase", pattern |-> <<"(","e","n","t">>, replacement |-> <<"x">>],
    [type |-> "abbreviation", pattern |-> <<"e","n","t">>, replacement |-> <<"\\","q">>],
    [type |-> "department", pattern |-> <<"d","e","p","t">>, replacement |-> <<>>] >>

\* the most rows of synonyms_df
MaxRules == 2

\* synonyms_df in any priority order
RuleLists ==
    {Tup([i \in 1..Len(ix) |-> RulePool[ix[i]]]) :
        ix \in UNION {SeqsOfLen(DOMAIN RulePool, n) : n \in 1..MaxRules}}

TextMapper == NewMapper(NuccRows, SynonymItems, Score(65, 100), TRUE)

\* the phrases joined for the splitters
SplitPhrases == <<
    <<"c","a","r","d","i","o">>,
    <<"n","e","u","r","o">> >>

\* the connectors, written as they are typed between two phrases
Joiners == <<
    <<" ","|"," ">>,
    <<","," ">>,
    <<";"," ">>,
    <<" ","&"," ">>,
    <<" ","+"," ">>,
    <<" ","/"," ">>,
    <<" ","a","n","d"," ">> >>

\* texts for the synonym expansion: a pattern inside a word and as a word
SynonymTexts == <<
    <<"d","e","n","t","a","l"," ","e","n","t">>,
    <<"e","n","t"," ","d","e","p","t">>,
    <<"x","(","e","n","t">>,
    <<"E","N","T">> >>

\* normalized texts for the junk classifier: the short abbreviations and others
JunkTexts == <<
    <<"i","r">>,
    <<"g","i">>,
    <<"e","d">>,
    <<"e","r">>,
    <<"i","c","u">>,
    <<"p","i","c","u">>,
    <<"n","i","c","u">>,
    <<"t","b","d">>,
    <<"c","a","r","d","i","o">>,
    <<"1","2">>,
    <<"x">> >>

\* raw specialties for preprocess_specialty
RawTexts == <<
    <<"G","I">>,
    <<"i","c","u">>,
    <<" ","E","d"," ">>,
    <<"T","B","D">>,
    <<"c","a","r","d","i","o"," ","/"," ","n","e","u","r","o">>,
    <<"d","e","n","t","a","l"," ","e","n","t">> >>

TextInit ==
    /\ pc = "idle" /\ arg = <<>> /\ out = <<>> /\ loc = <<>>
    /\ cfg \in {[synonyms_df |-> rules, mapper |-> TextMapper] : rules \in RuleLists}
    /\ df_in = <<>> /\ df_pre = <<>> /\ df_map = <<>> /\ df_final = <<>> /\ matched = {}

\* the text of two phrases joined by a connector
Joined(x) == x.a \o x.sep \o x.b

\* the splitter as map_text runs it
CallSplitSpecialties ==
    /\ pc = "idle"
    /\ \E i, j \in DOMAIN SplitPhrases, k \in DOMAIN Joiners :
          LET x == [a |-> SplitPhrases[i], b |-> SplitPhrases[j], sep |-> Joiners[k]]
          IN  /\ arg' = x
              /\ out' = split_specialties(normalize(Joined(x)))
    /\ pc' = "split_specialties"
    /\ UNCHANGED <<cfg, loc, df_in, df_pre, df_map, df_final, matched>>

\* the splitter as the preprocessor runs it
CallSplitMultiSpecialties ==
    /\ pc = "idle"
    /\ \E i, j \in DOMAIN SplitPhrases, k \in DOMAIN Joiners :
          LET x == [a |-> SplitPhrases[i], b |-> SplitPhrases[j], sep |-> Joiners[k]]
          IN  /\ arg' = x
              /\ out' = split_multi_specialties(normalize_text(Joined(x)))
    /\ pc' = "split_multi_specialties"
    /\ UNCHANGED <<cfg, loc, df_in, df_pre, df_map, df_final, matched>>

CallApplySynonymMapping ==
    /\ pc = "idle"
    /\ \E i \in DOMAIN SynonymTexts :
          /\ arg' = SynonymTexts[i]
          /\ out' = apply_synonym_mapping(cfg, SynonymTexts[i])
    /\ pc' = "apply_synonym_mapping"
    /\ UNCHANGED <<cfg, loc, df_in, df_pre, df_map, df_final, matched>>

CallExpandSynonyms ==
    /\ pc = "idle"
    /\ \E i \in DOMAIN SynonymTexts :
          /\ arg' = SynonymTexts[i]
          /\ out' = expand_synonyms(cfg.mapper, SynonymTexts[i])
    /\ pc' = "expand_synonyms"
    /\ UNCHANGED <<cfg, loc, df_in, df_pre, df_map, df_final, matched>>

CallIsJunkEntry ==
    /\ pc = "idle"
    /\ \E i \in DOMAIN JunkTexts :
          /\ arg' = JunkTexts[i]
          /\ out' = is_junk_entry(JunkTexts[i])
    /\ pc' = "is_junk_entry"
    /\ UNCHANGED <<cfg, loc, df_in, df_pre, df_map, df_final, matched>>

CallPreprocessSpecialty ==
    /\ pc = "idle"
    /\ \E i \in DOMAIN RawTexts :
          /\ arg' = RawTexts[i]
          /\ out' = preprocess_specialty(cfg, RawTexts[i])
    /\ pc' = "preprocess_specialty"
    /\ UNCHANGED <<cfg, loc, df_in, df_pre, df_map, df_final, matched>>

\* the caller takes the result
TextReturn ==
    /\ pc \in {"split_specialties", "split_multi_specialties", "apply_synonym_mapping",
               "expand_synonyms", "is_junk_entry", "preprocess_specialty"}
    /\ pc' = "idle" /\ arg' = <<>> /\ out' = <<>>
    /\ UNCHANGED <<cfg, loc, df_in, df_pre, df_map, df_final, matched>>

TextNext ==
    \/ CallSplitSpecialties \/ CallSplitMultiSpecialties
    \/ CallApplySynonymMapping \/ CallExpandSynonyms
    \/ CallIsJunkEntry \/ CallPreprocessSpecialty
    \/ TextReturn

SpecText == TextInit /\ [][TextNext]_vars

(***************************************************************************)
(* The pipeline under test: main() over an input of a few rows.            *)
(***************************************************************************)
\* raw_specialty values: a placeholder, an entry of the taxonomy, a text close
\* to an entry, a text that resembles none, and two specialties in one text
RawInputs == <<
    <<"T","B","D">>,
    <<"g","i">>,
    <<"i","c","u">>,
    <<"q","z","x">>,
    <<"g","i"," ","&"," ","q","z","x">> >>

\* the most rows of the input CSV
MaxRows == 2

RawFrames ==
    {Tup([i \in 1..Len(ix) |-> RawInputs[ix[i]]]) :
        ix \in UNION {SeqsOfLen(DOMAIN RawInputs, n) : n \in 1..MaxRows}}

\* NuccSpecialtyMapper(nucc_df, synonyms=syn_map): the default threshold
MainMappers == {NewMapper(NuccRows, SynonymItems, Score(65, 100), rf) : rf \in BOOLEAN}

MainInit ==
    /\ pc = "start" /\ cfg \in MainMappers /\ df_in \in RawFrames
    /\ arg = <<>> /\ out = <<>> /\ loc = <<>>
    /\ df_pre = <<>> /\ df_map = <<>> /\ df_final = <<>> /\ matched = {}

\* Step 1: preprocessing
Preprocess ==
    /\ pc = "start"
    /\ df_pre' = process_dataframe(df_in)
    /\ pc' = "preprocessed"
    /\ UNCHANGED <<cfg, arg, out, loc, df_in, df_map, df_final, matched>>

\* Step 2: mapping; matched keeps the rows map_dataframe hands to map_text
MapNonJunk ==
    /\ pc = "preprocessed"
    /\ LET df_map_input == MapInput(df_pre)
       IN  /\ matched' = Range(df_map_input)
           /\ df_map' = map_dataframe(cfg, df_map_input, "processed")
    /\ pc' = "mapped"
    /\ UNCHANGED <<cfg, arg, out, loc, df_in, df_pre, df_final>>

\* Step 2.5: one row per raw_specialty
AggregateDuplicates ==
    /\ pc = "mapped"
    /\ \E order \in IterationOrders({df_map[i].explain : i \in DOMAIN df_map}) :
          df_map' = IF HasDuplicates(df_map) THEN GroupByRaw(df_map, order) ELSE df_map
    /\ pc' = "aggregated"
    /\ UNCHANGED <<cfg, arg, out, loc, df_in, df_pre, df_final, matched>>

\* Step 3: merge, rename, fill
MergeAndFill ==
    /\ pc = "aggregated"
    /\ df_final' = FillNa(LeftMerge(df_pre, df_map))
    /\ pc' = "done"
    /\ UNCHANGED <<cfg, arg, out, loc, df_in, df_pre, df_map, matched>>

MainNext == Preprocess \/ MapNonJunk \/ AggregateDuplicates \/ MergeAndFill

SpecMain == MainInit /\ [][MainNext]_vars

(***************************************************************************)
(* The matcher's contracts.                                                *)
(***************************************************************************)

\* C1: whenever every pooled exact/token-overlap/fuzzy candidate of map_one
\* scores below the threshold, map_one returns no code and the reason
\* "junk-low-confidence"; and a code that map_one returns has a score at or
\* above the threshold.
C1_ThresholdEnforced ==
    pc = "map_one" =>
        LET pool == Candidates(cfg, MapOneQ(cfg, arg))
        IN  /\ (pool # <<>> /\ \A i \in DOMAIN pool : ScoreLt(pool[i].score, cfg.threshold))
                  => (out.codes = <<>> /\ out.why = <<"junk-low-confidence">>)
            /\ out.codes # <<>> => ScoreGe(out.score, cfg.threshold)

\* C1 witness: a phrase whose best candidate lies below the threshold
C1_Witness ==
    /\ pc = "map_one"
    /\ out.why = <<"junk-low-confidence">>
    /\ ScoreGt(out.score, ZeroScore)

\* C2 as stated: whenever the normalized, synonym-expanded phrase equals the
\* canonical phrase of a taxonomy entry, map_one returns the code of the first
\* such entry with score 1.0 and reason "exact".
C2_ExactPriorityAnyPhrase ==
    pc = "map_one" =>
        LET q    == MapOneQ(cfg, arg)
            hits == {i \in DOMAIN cfg.df : cfg.df[i].canonical = q}
        IN  hits # {} =>
                out = [codes |-> <<cfg.df[MinOf(hits)].code>>, score |-> OneScore,
                       why |-> <<"exact">>]

\* C2 amended: whenever the normalized, synonym-expanded phrase is not empty
\* and equals the canonical phrase of a taxonomy entry, map_one returns the
\* code of the first such entry with score 1.0 and reason "exact", whatever
\* token_match and fuzzy_match add to the pool.
C2_ExactPriority ==
    pc = "map_one" =>
        LET q    == MapOneQ(cfg, arg)
            hits == {i \in DOMAIN cfg.df : cfg.df[i].canonical = q}
        IN  (q # <<>> /\ hits # {}) =>
                out = [codes |-> <<cfg.df[MinOf(hits)].code>>, score |-> OneScore,
                       why |-> <<"exact">>]

\* C2 witness: the phrase equals the canonical phrase of an entry while
\* token_match scores another entry 1.0 as well
C2_Witness ==
    /\ pc = "map_one"
    /\ out.why = <<"exact">>
    /\ LET q == MapOneQ(cfg, arg)
           t == token_match(cfg, q)
       IN  \E i \in DOMAIN t : t[i].code # out.codes[1] /\ ScoreEq(t[i].score, OneScore)

\* C3 as stated: for a text of at least one phrase the confidence of map_text
\* is the arithmetic mean of the scores map_one returned for the phrases, also
\* when no phrase resolved to a code.
C3_ConfidenceAlwaysMean ==
    (pc = "map_text" /\ Len(loc.confs) >= 1) =>
        LET total == SumScores(loc.confs)
        IN  ScoreEq(out.conf, <<total[1], total[2] * Len(loc.confs)>>)

\* C3 amended: for a text of at least one phrase the confidence of map_text
\* is the arithmetic mean of the scores map_one returned for all phrases when
\* at least one phrase resolved to a code, and 0.0 when none did.
C3_ConfidenceMean ==
    (pc = "map_text" /\ Len(loc.confs) >= 1) =>
        LET total == SumScores(loc.confs)
        IN  IF \E i \in DOMAIN loc.reasons : loc.reasons[i].codes # <<>>
            THEN ScoreEq(out.conf, <<total[1], total[2] * Len(loc.confs)>>)
            ELSE out.conf = ZeroScore

\* C3 witness: one phrase resolved to a code, another is below the threshold
\* with a positive score
C3_Witness ==
    /\ pc = "map_text"
    /\ out.codes # <<>>
    /\ \E i \in DOMAIN loc.reasons :
          loc.reasons[i].codes = <<>> /\ ScoreGt(loc.confs[i], ZeroScore)

\* C4: map_text returns at most 3 distinct codes; they are the codes map_one
\* returned most often over the phrases, by decreasing frequency, codes of
\* equal frequency in the order in which they were first returned.
C4_TopCodes ==
    pc = "map_text" =>
        LET rs           == loc.reasons
            has(c)       == {i \in DOMAIN rs : c \in Range(rs[i].codes)}
            seen         == UNION {Range(rs[i].codes) : i \in DOMAIN rs}
            before(c, d) ==
                \/ Cardinality(has(c)) > Cardinality(has(d))
                \/ Cardinality(has(c)) = Cardinality(has(d)) /\ MinOf(has(c)) < MinOf(has(d))
            cs           == out.codes
        IN  /\ Len(cs) = IF Cardinality(seen) < 3 THEN Cardinality(seen) ELSE 3
            /\ Range(cs) \subseteq seen
            /\ \A i, j \in DOMAIN cs : i < j => before(cs[i], cs[j])
            /\ \A c \in seen \ Range(cs) : \A d \in Range(cs) : before(d, c)

\* C4 witness: more than 3 distinct codes were returned, two of them equally often
C4_Witness ==
    /\ pc = "map_text"
    /\ Len(out.codes) = 3
    /\ Len(loc.all_codes) > 3
    /\ \E i, j \in DOMAIN loc.all_codes : i # j /\ loc.all_codes[i].n = loc.all_codes[j].n

\* C12: in both branches of fuzzy_match every candidate returned is that of a
\* taxonomy entry whose canonical phrase has a similarity to the query at or
\* above the threshold of the branch (0.75 with rapidfuzz, 0.8 with difflib)
\* and shares at least one token with the query.
C12_FuzzyFilter ==
    pc = "fuzzy_match" =>
        \A k \in DOMAIN out :
            \E i \in DOMAIN cfg.df :
                /\ cfg.df[i].code = out[k].code
                /\ out[k].score = IF cfg.rapidfuzz
                                  THEN token_sort_ratio(arg, cfg.df[i].canonical)
                                  ELSE SequenceMatcherRatio(arg, cfg.df[i].canonical)
                /\ ScoreGe(out[k].score,
                           IF cfg.rapidfuzz THEN Score(75, 100) ELSE Score(8, 10))
                /\ ScoreGt(token_overlap(arg, cfg.df[i].canonical), ZeroScore)

(***************************************************************************)
(* The normalizers on their own: mapping.normalize and                     *)
(* SpecialtyPreprocessor.normalize_text called on any text.                *)
(***************************************************************************)
\* pieces of raw text: a noise word, a stop word, a specialty, whitespace and
\* punctuation that one or both normalizers replace
NormTokens == <<
    <<"D","e","p","t">>,
    <<"o","f">>,
    <<"g","i">>,
    <<" ">>,
    <<"\t">>,
    <<"|">>,
    <<"_">>,
    <<"-">> >>

\* the most pieces of a text
MaxNormTokens == 4

\* the texts: up to MaxNormTokens pieces written one after the other
NormTexts ==
    {ConcatAll(Tup([i \in 1..Len(ix) |-> NormTokens[ix[i]]])) :
        ix \in UNION {SeqsOfLen(DOMAIN NormTokens, n) : n \in 0..MaxNormTokens}}

NormInit ==
    /\ pc = "idle" /\ cfg = <<>> /\ arg = <<>> /\ out = <<>> /\ loc = <<>>
    /\ df_in = <<>> /\ df_pre = <<>> /\ df_map = <<>> /\ df_final = <<>> /\ matched = {}

CallNormalize ==
    /\ pc = "idle"
    /\ \E text \in NormTexts : arg' = text /\ out' = normalize(text)
    /\ pc' = "normalize"
    /\ UNCHANGED <<cfg, loc, df_in, df_pre, df_map, df_final, matched>>

CallNormalizeText ==
    /\ pc = "idle"
    /\ \E text \in NormTexts : arg' = text /\ out' = normalize_text(text)
    /\ pc' = "normalize_text"
    /\ UNCHANGED <<cfg, loc, df_in, df_pre, df_map, df_final, matched>>

\* the caller takes the result
NormReturn ==
    /\ pc \in {"normalize", "normalize_text"}
    /\ pc' = "idle" /\ arg' = <<>> /\ out' = <<>>
    /\ UNCHANGED <<cfg, loc, df_in, df_pre, df_map, df_final, matched>>

NormNext == CallNormalize \/ CallNormalizeText \/ NormReturn

SpecNorm == NormInit /\ [][NormNext]_vars

(***************************************************************************)
(* The contracts of the text transforms.                                   *)
(***************************************************************************)

\* C5: two phrases A and B joined by any connector of the configured set
\* (pipe, comma, semicolon, ampersand, plus, slash, the word "and") come out
\* of the splitter as the sequence [A, B], both as map_text runs it,
\* split_specialties(normalize(text)), and as the preprocessor runs it,
\* split_multi_specialties(normalize_text(text)).
C5_SplitDeterminism ==
    pc \in {"split_specialties", "split_multi_specialties"} => out = <<arg.a, arg.b>>

\* C6: apply_synonym_mapping and expand_synonyms replace a pattern only where
\* it occurs as a whole word or phrase: a word of the text in which no pattern
\* of the rules occurs between word boundaries is a word of the result.
C6_BoundarySafe ==
    pc \in {"apply_synonym_mapping", "expand_synonyms"} =>
        LET patterns ==
                IF pc = "apply_synonym_mapping"
                THEN {cfg.synonyms_df[k].pattern : k \in DOMAIN cfg.synonyms_df}
                ELSE {cfg.mapper.synonyms[k][1] : k \in DOMAIN cfg.mapper.synonyms}
            whole(p, w) ==
                \E k \in DOMAIN w : WordAltMatchLen(StrLower(w), k, <<StrLower(p)>>) > 0
            words == StrSplit(arg)
        IN  \A i \in DOMAIN words :
                (\A p \in patterns : ~whole(p, words[i]))
                    => words[i] \in Range(StrSplit(out))

\* C7 as stated: a rule whose pattern or replacement makes the regex fail has
\* no effect, and all other rules are applied in order: the result is that of
\* the rule list without the failing rules.
C7_FailingRuleSkipped ==
    pc = "apply_synonym_mapping" =>
        LET rules == cfg.synonyms_df
            sound == SelectIdx(rules, {k \in DOMAIN rules : ~RuleRaises(rules[k])})
        IN  out = apply_synonym_mapping([synonyms_df |-> sound], arg)

\* C7 amended: a rule whose pattern or replacement makes the regex fail is
\* applied at its place in the order as the literal, case-sensitive replacement
\* of every occurrence of its pattern (str.replace), and all other rules are
\* applied in order before and after it.
C7_FailingRuleFallsBack ==
    pc = "apply_synonym_mapping" =>
        LET rules == cfg.synonyms_df
        IN  \A k \in DOMAIN rules :
                (RuleRaises(rules[k]) /\ rules[k].pattern # <<>> /\ arg # <<>>) =>
                    LET before == SynonymLoop(SubSeq(rules, 1, k - 1), arg)
                        there  == StrReplace(before, rules[k].pattern, rules[k].replacement)
                        after  == SynonymLoop(SubSeq(rules, k + 1, Len(rules)), there)
                    IN  out = StrStrip(CollapseWs(after))

\* C7 witness: the pattern of a failing rule occurs in the text, and the
\* result is not the one of the rule list without the failing rules
C7_Witness ==
    /\ pc = "apply_synonym_mapping"
    /\ \E k \in DOMAIN cfg.synonyms_df :
          RuleRaises(cfg.synonyms_df[k]) /\ Contains(arg, cfg.synonyms_df[k].pattern)
    /\ ~C7_FailingRuleSkipped

\* C8: is_junk_entry returns False for every abbreviation on the short
\* whitelist (ir, gi, ed, er, icu, picu, nicu), and preprocess_specialty
\* returns no empty list for an input that normalizes to one of them.
C8_WhitelistUsable ==
    /\ (pc = "is_junk_entry" /\ arg \in Range(short_valid_abbr)) => out = FALSE
    /\ (pc = "preprocess_specialty" /\ normalize_text(arg) \in Range(short_valid_abbr))
          => out # <<>>

\* C11: a second pass of either normalizer changes nothing:
\* normalize(normalize(x)) = normalize(x) in mapping.py and
\* normalize_text(normalize_text(x)) = normalize_text(x) in the preprocessor;
\* no removal of the first pass leaves a noise word, a stop word, a
\* punctuation character or a whitespace run for the second.
C11_NormalizeIdempotent ==
    /\ pc = "normalize" => normalize(out) = out
    /\ pc = "normalize_text" => normalize_text(out) = out

\* C11 witness: the first pass of normalize replaced a punctuation character,
\* removed a noise word and a stop word, and left a text that is not empty
C11_Witness ==
    /\ pc = "normalize"
    /\ Normalize2(arg) # Normalize1(arg)
    /\ Normalize3(arg) # Normalize2(arg)
    /\ Normalize4(arg) # Normalize3(arg)
    /\ out # <<>>

(***************************************************************************)
(* The contracts of the pipeline.                                          *)
(***************************************************************************)

\* C9: an input row that is not junk after preprocessing (is_junk = 0) and for
\* which map_text resolves no code has the output row is_junk = 1,
\* nucc_codes = "JUNK", confidence 0.0; and in every output row nucc_codes is
\* "JUNK" exactly when is_junk is 1.
C9_UnmappedRowIsJunk ==
    pc = "done" =>
        /\ Len(df_final) = Len(df_pre)
        /\ \A i \in DOMAIN df_pre :
              (df_pre[i].is_junk = 0 /\ map_text(cfg, df_pre[i].processed).codes = <<>>)
                  => /\ df_final[i].is_junk = 1
                     /\ df_final[i].nucc_codes = JunkCode
                     /\ df_final[i].confidence = ZeroScore
        /\ \A i \in DOMAIN df_final :
              (df_final[i].nucc_codes = JunkCode) <=> (df_final[i].is_junk = 1)

\* C10: a row that preprocessing flags as junk is not handed to the matcher,
\* and its output row has is_junk = 1, nucc_codes = "JUNK", confidence 0.0 and
\* explain "junk-flagged", whatever other rows the input holds.
C10_JunkEarlyExit ==
    pc = "done" =>
        /\ Len(df_final) = Len(df_pre)
        /\ \A i \in DOMAIN df_pre :
              df_pre[i].is_junk = 1 =>
                  /\ df_pre[i] \notin matched
                  /\ df_final[i] = [raw_specialty |-> df_in[i],
                                    processed     |-> df_pre[i].processed,
                                    is_junk       |-> 1,
                                    nucc_codes    |-> JunkCode,
                                    confidence    |-> ZeroScore,
                                    explain       |-> JunkFlagged]

\* C10 witness: a junk row next to a row that was mapped to a code
C10_Witness ==
    /\ pc = "done"
    /\ \E i, j \in DOMAIN df_final :
          /\ df_pre[i].is_junk = 1
          /\ df_pre[j].is_junk = 0 /\ df_final[j].nucc_codes # JunkCode

====
